---- MODULE Spec2Model ----
(***************************************************************************)
(* A model of avian, a collaborative editor: the piece table               *)
(* (src/src/editor/pt.rs), the revision history with its transform, and    *)
(* the Editor that coordinates them (src/src/lib.rs), driven the way       *)
(* the websocket server drives it (src/src/bin/server.rs).                 *)
(*                                                                         *)
(* Conventions.  Rust indexes from 0 and TLA+ sequences from 1: byte and   *)
(* text positions (pos, offset, old, new) keep the 0-based values of the   *)
(* code, and the piece index returned by the lookups is the 1-based index  *)
(* into the sequence of pieces.  A String is the sequence of its UTF-8     *)
(* bytes.  A piece is a pair <<offset, length>>, a history entry a pair    *)
(* <<old, new>>.                                                           *)
(***************************************************************************)
EXTENDS Integers, Sequences, FiniteSets, TLC

(***************************************************************************)
(* Bounds of the model.                                                    *)
(***************************************************************************)
\* Connection ids are 1..NumClients.
NumClients == 2
\* At most MaxEdits edits are submitted successfully in one behaviour.
MaxEdits == 3
\* Submitted edits carry a base revision in 0..MaxRev ...
MaxRev == 2
\* ... a position in 0..MaxPos ...
MaxPos == 2
\* ... and, for a Delete, a length in 0..MaxDel.
MaxDel == 2
\* A History driven on its own holds at most MaxHist entries.
MaxHist == 2
\* A PieceTable driven on its own has a buffer of at most MaxBuffer bytes ...
MaxBuffer == 5
\* ... and is asked to delete at most MaxLen bytes at once.
MaxLen == 3
\* The edits sent to the server carry a position in 0..ServerMaxPos and, for
\* a Delete, a length in 0..ServerMaxDel.
ServerMaxPos == 1
ServerMaxDel == 1
\* The command-line client receives at most MaxInbox messages.
MaxInbox == 4

Ids == 1..NumClients

\* The strings clients insert: "ab".
Contents == {<<97, 98>>}

(***************************************************************************)
(* Edit and EditAction.                                                    *)
(***************************************************************************)
Insert(s) == [kind |-> "Insert", s |-> s, len |-> 0]
Delete(n) == [kind |-> "Delete", s |-> <<>>, len |-> n]

EditAction == {Insert(s) : s \in Contents} \cup {Delete(n) : n \in 0..MaxDel}

Edit == [pos : 0..MaxPos, rev : 0..MaxRev, action : EditAction]

Ok(e) == [ok |-> TRUE, err |-> "", edit |-> e]
Err(reason, e) == [ok |-> FALSE, err |-> reason, edit |-> e]

(***************************************************************************)
(* PieceTable.  A table is [buffer, pieces]; an operation that can panic   *)
(* returns the table with a panic flag.                                    *)
(***************************************************************************)
None == [some |-> FALSE, piece |-> 0, len |-> 0]
Some(i, sum) == [some |-> TRUE, piece |-> i, len |-> sum]

PieceTableNew == [buffer |-> <<>>, pieces |-> <<<<0, 0>>>>]

PieceTableFrom(s) == [buffer |-> s, pieces |-> <<<<0, Len(s)>>>>]

\* str::is_char_boundary: 0 and the length are boundaries, an index past the
\* end is not, and inside the string every byte but a continuation byte
\* (0x80..0xBF) starts a character.
is_char_boundary(buffer, index) ==
    IF index = 0 THEN TRUE
    ELSE IF index >= Len(buffer) THEN index = Len(buffer)
    ELSE LET b == buffer[index + 1] IN b < 128 \/ b >= 192

RECURSIVE piece_index_loop(_, _, _, _)
piece_index_loop(pieces, pos, i, sum) ==
    IF i > Len(pieces) THEN None
    ELSE LET s == sum + pieces[i][2]
         IN  IF s >= pos THEN Some(i, s)
             ELSE piece_index_loop(pieces, pos, i + 1, s)

\* A lookup for which a piece ending exactly before pos does not contain it.
piece_index_strict(pieces, pos) == piece_index_loop(pieces, pos + 1, 1, 0)

piece_index(pieces, pos) == piece_index_loop(pieces, pos, 1, 0)

RECURSIVE piece_index_del_loop(_, _, _, _)
piece_index_del_loop(pieces, pos, i, sum) ==
    IF i > Len(pieces) THEN None
    ELSE LET s == sum + pieces[i][2]
         IN  IF s > pos THEN Some(i, s)
             ELSE piece_index_del_loop(pieces, pos, i + 1, s)

\* A lookup that is off by one: the piece holding the byte after pos.
piece_index_del_next(pieces, pos) == piece_index_del_loop(pieces, pos + 1, 1, 0)

piece_index_del(pieces, pos) == piece_index_del_loop(pieces, pos, 1, 0)

\* A check of the range alone, not of the character boundary.
valid_index_in_range(pt, pos) == piece_index(pt.pieces, pos).some

valid_index(pt, pos) ==
    LET r == piece_index(pt.pieces, pos)
    IN  IF r.some
        THEN LET p      == pt.pieces[r.piece]
                 offset == p[2] - (r.len - pos)
             IN  is_char_boundary(pt.buffer, p[1] + offset)
        ELSE FALSE

\* An insert that appends whatever the index is.
VecPush(v, index, x) == Append(v, x)

\* Vec::insert(index, element) with the 0-based index of the code.
VecInsert(v, index, x) ==
    SubSeq(v, 1, index) \o <<x>> \o SubSeq(v, index + 1, Len(v))

\* A remove that takes the last piece whatever the index is.
VecPop(v, i) == SubSeq(v, 1, Len(v) - 1)

\* Vec::remove of the piece at 1-based index i.
VecRemove(v, i) == SubSeq(v, 1, i - 1) \o SubSeq(v, i + 1, Len(v))

Panicked(pt) == [buffer |-> pt.buffer, pieces |-> pt.pieces, panic |-> TRUE]
Done(buffer, pieces) == [buffer |-> buffer, pieces |-> pieces, panic |-> FALSE]

insert(pt, pos, content) ==
    LET offset == Len(pt.buffer)
        buffer == pt.buffer \o content
        r      == piece_index(pt.pieces, pos)
    IN  IF ~r.some THEN Panicked([buffer |-> buffer, pieces |-> pt.pieces])
        ELSE
        LET piece            == r.piece
            p                == pt.pieces[piece]
            is_end_of_piece  == pos = r.len
            is_end_of_buffer == p[1] + p[2] = offset
            extra_piece      == <<offset, Len(content)>>
        IN  IF is_end_of_buffer /\ is_end_of_piece
            THEN Done(buffer,
                      [pt.pieces EXCEPT ![piece] = <<p[1], p[2] + Len(content)>>])
            ELSE IF is_end_of_piece
            THEN Done(buffer, VecInsert(pt.pieces, piece, extra_piece))
            ELSE LET overhead    == r.len - pos
                     shrunk      == <<p[1], p[2] - overhead>>
                     after_piece == <<shrunk[1] + shrunk[2], overhead>>
                     ps1 == [pt.pieces EXCEPT ![piece] = shrunk]
                     ps2 == VecInsert(ps1, piece, extra_piece)
                 IN  Done(buffer, VecInsert(ps2, piece + 1, after_piece))

\* No restoring of the (0, 0) piece.
no_empty_check(pieces) == pieces

empty_check(pieces) == IF pieces = <<>> THEN <<<<0, 0>>>> ELSE pieces

\* delete works on the pieces alone; the result is [pieces, panic].  A
\* subtraction that would go below zero is a panic (an overflow check).
RECURSIVE delete_pieces(_, _, _)
delete_pieces(pieces, pos, len) ==
    LET r == piece_index_del(pieces, pos)
    IN  IF ~r.some THEN [pieces |-> pieces, panic |-> TRUE]
        ELSE
        LET piece          == r.piece
            end            == r.len
            p              == pieces[piece]
            overlap        == pos + len > end
            end_of_piece   == pos + len = end
            start_of_piece == pos = end - p[2]
        IN  IF start_of_piece
            THEN IF end_of_piece
                 THEN [pieces |-> empty_check(VecRemove(pieces, piece)),
                       panic |-> FALSE]
                 ELSE IF overlap
                 THEN LET rest == delete_pieces(VecRemove(pieces, piece),
                                                pos, len - p[2])
                      IN  [pieces |-> empty_check(rest.pieces),
                           panic |-> rest.panic]
                 ELSE IF p[2] < len
                      THEN [pieces |-> pieces, panic |-> TRUE]
                      ELSE [pieces |-> empty_check(
                               [pieces EXCEPT ![piece] = <<p[1] + len, p[2] - len>>]),
                            panic |-> FALSE]
            ELSE IF end_of_piece
            THEN IF p[2] < len
                 THEN [pieces |-> pieces, panic |-> TRUE]
                 ELSE [pieces |-> [pieces EXCEPT ![piece] = <<p[1], p[2] - len>>],
                       panic |-> FALSE]
            ELSE LET overhead == end - pos
                     shrunk   == <<p[1], p[2] - overhead>>
                     ps1      == [pieces EXCEPT ![piece] = shrunk]
                 IN  IF p[2] < overhead
                     THEN [pieces |-> pieces, panic |-> TRUE]
                     ELSE IF overlap
                     THEN LET rest == delete_pieces(ps1, pos, len - overhead)
                          IN  [pieces |-> empty_check(rest.pieces),
                               panic |-> rest.panic]
                     ELSE LET after_piece ==
                                  <<shrunk[1] + shrunk[2] + len, overhead - len>>
                          IN  [pieces |-> VecInsert(ps1, piece, after_piece),
                               panic |-> FALSE]

\* A delete that also empties the buffer when no text is left.
delete_compacting(pt, pos, len) ==
    LET r == delete_pieces(pt.pieces, pos, len)
    IN  [buffer |-> IF r.pieces = <<<<0, 0>>>> THEN <<>> ELSE pt.buffer,
         pieces |-> r.pieces, panic |-> r.panic]

delete(pt, pos, len) ==
    LET r == delete_pieces(pt.pieces, pos, len)
    IN  [buffer |-> pt.buffer, pieces |-> r.pieces, panic |-> r.panic]

\* Display: the bytes of the pieces in order.
RECURSIVE to_string_loop(_, _, _)
to_string_loop(buffer, pieces, i) ==
    IF i > Len(pieces) THEN <<>>
    ELSE SubSeq(buffer, pieces[i][1] + 1, pieces[i][1] + pieces[i][2])
         \o to_string_loop(buffer, pieces, i + 1)

to_string(pt) == to_string_loop(pt.buffer, pt.pieces, 1)

(***************************************************************************)
(* History.  A history is [first_rev, edits].                              *)
(***************************************************************************)
HistoryNew == [first_rev |-> 0, edits |-> <<>>]

Min2(a, b) == IF a < b THEN a ELSE b

\* History::rev
rev(h) == h.first_rev + Len(h.edits)

\* A rule 2 that also passes over an entry lying exactly at the position.
NoEffectOrAt(old, new, pos) == Min2(old, new) >= pos

\* Rule 2 of History::transform: the entry lies after the position.
NoEffect(old, new, pos) == Min2(old, new) > pos

\* The loop of History::transform over the entries from index i on.
RECURSIVE transform_loop(_, _, _)
transform_loop(edits, i, pos) ==
    IF i > Len(edits) THEN [ok |-> TRUE, pos |-> pos]
    ELSE LET old == edits[i][1]
             new == edits[i][2]
         IN  IF old < pos
             THEN transform_loop(edits, i + 1, (pos + new) - old)
             ELSE IF NoEffect(old, new, pos)
             THEN transform_loop(edits, i + 1, pos)
             ELSE [ok |-> FALSE, pos |-> pos]

\* A transform that rebases against one entry too many: the entry of the
\* edit's own base revision.
SkipOneLess(delta) == IF delta > 0 THEN delta ELSE 1

\* The entries transform starts at: iter().skip(delta).
Skip(delta) == delta + 1

transform(h, edit) ==
    IF edit.rev < h.first_rev THEN Err("old revision", edit)
    ELSE IF edit.rev > h.first_rev + Len(h.edits) THEN Err("future revision", edit)
    ELSE LET delta == edit.rev - h.first_rev
             r     == transform_loop(h.edits, Skip(delta), edit.pos)
         IN  IF r.ok
             THEN Ok([pos |-> r.pos, rev |-> edit.rev, action |-> edit.action])
             ELSE Err("not implemented", edit)

\* History::record: the entry pushed and the edit with its revision set.
record(h, edit) ==
    LET entry == IF edit.action.kind = "Insert"
                 THEN <<edit.pos, edit.pos + Len(edit.action.s)>>
                 ELSE <<edit.pos + edit.action.len, edit.pos>>
        edits == Append(h.edits, entry)
    IN  [hist |-> [first_rev |-> h.first_rev, edits |-> edits],
         edit |-> [pos |-> edit.pos,
                   rev |-> h.first_rev + Len(edits),
                   action |-> edit.action]]

\* No popping at all.
pop_none(edits, n) == edits

\* VecDeque::pop_front, n times; popping an empty deque does nothing.
RECURSIVE pop_front_times(_, _)
pop_front_times(edits, n) ==
    IF n <= 0 THEN edits
    ELSE pop_front_times(IF edits = <<>> THEN edits ELSE Tail(edits), n - 1)

\* History::acknowledge: first_rev..rev is empty when rev <= first_rev, and
\* first_rev is assigned in every case.
HistoryAcknowledge(h, r) ==
    [first_rev |-> r, edits |-> pop_front_times(h.edits, r - h.first_rev)]

(***************************************************************************)
(* Editor.  The state is (PieceTable, History, HashMap<Id, u32>): pt, hist *)
(* and clients, a function from the ids in the map to their revision.      *)
(***************************************************************************)
MinOf(S) == CHOOSE m \in S : \A x \in S : m <= x

Values(m) == {m[k] : k \in DOMAIN m}

MapInsert(m, k, v) == [x \in DOMAIN m \cup {k} |-> IF x = k THEN v ELSE m[x]]

MapRemove(m, k) == [x \in DOMAIN m \ {k} |-> m[x]]

\* Editor::acknowledge
EditorAcknowledge(cl, h, id, r) ==
    LET inserted == MapInsert(cl, id, r)
        min_rev  == MinOf(Values(inserted))
    IN  [clients |-> inserted, hist |-> HistoryAcknowledge(h, min_rev)]

\* An edit that touches the piece table before it looks at what transform
\* returned: the edit as submitted is applied when transform refused it.
EditorEditApplyingFirst(p, h, cl, id, edit) ==
    LET a   == EditorAcknowledge(cl, h, id, edit.rev)
        tr  == transform(a.hist, edit)
        e   == IF tr.ok THEN tr.edit ELSE edit
        ok  == IF e.action.kind = "Insert"
               THEN valid_index(p, e.pos)
               ELSE /\ e.action.len > 0
                    /\ valid_index(p, e.pos)
                    /\ valid_index(p, e.pos + e.action.len)
        q   == IF ~ok THEN [buffer |-> p.buffer, pieces |-> p.pieces, panic |-> FALSE]
               ELSE IF e.action.kind = "Insert"
               THEN insert(p, e.pos, e.action.s)
               ELSE delete(p, e.pos, e.action.len)
        rec == record(a.hist, e)
    IN  [pt |-> [buffer |-> q.buffer, pieces |-> q.pieces],
         hist |-> IF tr.ok /\ ok THEN rec.hist ELSE a.hist,
         clients |-> a.clients, panic |-> q.panic,
         res |-> IF tr.ok /\ ok THEN Ok(rec.edit)
                 ELSE Err(IF tr.ok THEN "invalid index" ELSE tr.err, edit),
         tr |-> tr, cur |-> rev(a.hist)]

\* Editor::edit on the state (p, h, cl): the state it leaves and what it
\* returns.  tr is the result of the call of transform, and cur the current
\* revision when transform is called.
EditorEdit(p, h, cl, id, edit) ==
    LET a  == EditorAcknowledge(cl, h, id, edit.rev)
        tr == transform(a.hist, edit)
        fail(reason) ==
            [pt |-> p, hist |-> a.hist, clients |-> a.clients, panic |-> FALSE,
             res |-> Err(reason, edit), tr |-> tr, cur |-> rev(a.hist)]
    IN  IF ~tr.ok THEN fail(tr.err)
        ELSE
        LET e  == tr.edit
            ok == IF e.action.kind = "Insert"
                  THEN valid_index(p, e.pos)
                  ELSE /\ e.action.len > 0
                       /\ valid_index(p, e.pos)
                       /\ valid_index(p, e.pos + e.action.len)
        IN  IF ~ok THEN fail("invalid index")
            ELSE
            LET q == IF e.action.kind = "Insert"
                     THEN insert(p, e.pos, e.action.s)
                     ELSE delete(p, e.pos, e.action.len)
                rec == record(a.hist, e)
            IN  [pt |-> [buffer |-> q.buffer, pieces |-> q.pieces],
                 hist |-> rec.hist, clients |-> a.clients, panic |-> q.panic,
                 res |-> Ok(rec.edit), tr |-> tr, cur |-> rev(a.hist)]

\* A disconnect that leaves the history alone when the last client goes.
EditorDisconnectKeepLog(h, cl, id) ==
    LET removed == MapRemove(cl, id)
    IN  [clients |-> removed,
         hist |-> IF DOMAIN removed # {}
                  THEN HistoryAcknowledge(h, MinOf(Values(removed)))
                  ELSE h]

\* Editor::disconnect
EditorDisconnect(h, cl, id) ==
    LET removed == MapRemove(cl, id)
    IN  [clients |-> removed,
         hist |-> IF DOMAIN removed # {}
                  THEN HistoryAcknowledge(h, MinOf(Values(removed)))
                  ELSE HistoryAcknowledge(h, rev(h))]

\* A connect that keeps the entry of an id already in the map.
EditorConnectOnce(p, h, cl, id) ==
    [clients |-> IF id \in DOMAIN cl THEN cl ELSE MapInsert(cl, id, rev(h)),
     ret |-> <<rev(h), to_string(p)>>]

\* Editor::buffer
EditorBuffer(p) == to_string(p)

\* Editor::connect
EditorConnect(p, h, cl, id) ==
    [clients |-> MapInsert(cl, id, rev(h)), ret |-> <<rev(h), to_string(p)>>]

(***************************************************************************)
(* The state.  pt, hist and clients are the Editor; panicked is set when a *)
(* call panicked (the process is gone).  last is the call the server is    *)
(* in, with what it returned, or Idle between two calls: the handlers run  *)
(* one at a time and to completion.  log holds the edits returned by the   *)
(* successful calls of edit, in order (what the server broadcasts), each   *)
(* with the text it produced.                                              *)
(***************************************************************************)
VARIABLES pt, hist, clients, panicked, last, log

vars == <<pt, hist, clients, panicked, last, log>>

NoEdit == [pos |-> 0, rev |-> 0, action |-> Delete(0)]

Idle == [op |-> "idle", id |-> 0, edit |-> NoEdit, res |-> Ok(NoEdit),
         tr |-> Ok(NoEdit), cur |-> 0]

\* The text as the sequence of the buffer offsets of its bytes: the buffer
\* is append-only, so an offset names one inserted byte for good.
RECURSIVE id_text_loop(_, _)
id_text_loop(pieces, i) ==
    IF i > Len(pieces) THEN <<>>
    ELSE [k \in 1..pieces[i][2] |-> pieces[i][1] + k - 1]
         \o id_text_loop(pieces, i + 1)

IdText(p) == id_text_loop(p.pieces, 1)

Init ==
    /\ pt = PieceTableNew
    /\ hist = HistoryNew
    /\ clients = <<>>
    /\ panicked = FALSE
    /\ last = Idle
    /\ log = <<>>

\* Server::on_open: Editor::connect.
Connect(id) ==
    /\ ~panicked
    /\ last = Idle
    /\ LET c == EditorConnect(pt, hist, clients, id)
       IN  /\ clients' = c.clients
           /\ last' = [op |-> "connect", id |-> id, edit |-> NoEdit,
                       res |-> Ok(NoEdit), tr |-> Ok(NoEdit), cur |-> c.ret[1]]
    /\ UNCHANGED <<pt, hist, panicked, log>>

\* A disconnect that also starts the document afresh.
DisconnectDroppingText(id) ==
    /\ ~panicked
    /\ last = Idle
    /\ LET d == EditorDisconnect(hist, clients, id)
       IN  /\ clients' = d.clients
           /\ hist' = d.hist
           /\ last' = [op |-> "disconnect", id |-> id, edit |-> NoEdit,
                       res |-> Ok(NoEdit), tr |-> Ok(NoEdit), cur |-> rev(hist)]
    /\ pt' = PieceTableNew
    /\ UNCHANGED <<panicked, log>>

\* Server::on_close: Editor::disconnect.
Disconnect(id) ==
    /\ ~panicked
    /\ last = Idle
    /\ LET d == EditorDisconnect(hist, clients, id)
       IN  /\ clients' = d.clients
           /\ hist' = d.hist
           /\ last' = [op |-> "disconnect", id |-> id, edit |-> NoEdit,
                       res |-> Ok(NoEdit), tr |-> Ok(NoEdit), cur |-> rev(hist)]
    /\ UNCHANGED <<pt, panicked, log>>

\* Server::on_message: Editor::edit for the connection's id.  A message
\* arrives on an open connection only, so the id has connected; an edit
\* from an id not in the map would leave the Editor as connect followed by
\* the edit does.
EditCall(id, edit) ==
    /\ ~panicked
    /\ last = Idle
    /\ id \in DOMAIN clients
    /\ Len(log) < MaxEdits
    /\ LET r == EditorEdit(pt, hist, clients, id, edit)
       IN  /\ pt' = r.pt
           /\ hist' = r.hist
           /\ clients' = r.clients
           /\ panicked' = r.panic
           /\ last' = [op |-> "edit", id |-> id, edit |-> edit, res |-> r.res,
                       tr |-> r.tr, cur |-> r.cur]
           /\ log' = IF r.res.ok
                     THEN Append(log, [edit |-> r.res.edit, ids |-> IdText(r.pt)])
                     ELSE log

\* The handler returns to the event loop.
Return ==
    /\ last # Idle
    /\ last' = Idle
    /\ UNCHANGED <<pt, hist, clients, panicked, log>>

Next ==
    \/ \E id \in Ids : Connect(id)
    \/ \E id \in Ids : Disconnect(id)
    \/ \E id \in Ids : \E edit \in Edit : EditCall(id, edit)
    \/ Return

\* Any sequence of connect, disconnect and edit calls on one Editor.
Spec == Init /\ [][Next]_vars

(***************************************************************************)
(* The same Editor behind the server, with clients that follow the         *)
(* protocol: a connection id is opened once until it is closed, and a      *)
(* client bases an edit on a revision it has received (the one sent when   *)
(* it connected or one broadcast since) that is no older than the base of  *)
(* its previous edit.                                                      *)
(***************************************************************************)
Open(id) == id \notin DOMAIN clients /\ Connect(id)

Close(id) == id \in DOMAIN clients /\ Disconnect(id)

Submit(id, edit) ==
    /\ id \in DOMAIN clients
    /\ clients[id] <= edit.rev
    /\ edit.rev <= rev(hist)
    /\ EditCall(id, edit)

NextProtocol ==
    \/ \E id \in Ids : Open(id)
    \/ \E id \in Ids : Close(id)
    \/ \E id \in Ids : \E edit \in Edit : Submit(id, edit)
    \/ Return

SpecProtocol == Init /\ [][NextProtocol]_vars

(***************************************************************************)
(* A History on its own, under any sequence of calls of its methods: the   *)
(* Editor calls acknowledge with whatever the smallest revision in its map *)
(* is, transform with the edit as submitted, and record with the edit it   *)
(* applied.                                                                *)
(***************************************************************************)
HistoryTransform(edit) ==
    /\ last = Idle
    /\ last' = [op |-> "transform", id |-> 0, edit |-> edit,
                res |-> transform(hist, edit), tr |-> transform(hist, edit),
                cur |-> rev(hist)]
    /\ UNCHANGED <<pt, hist, clients, panicked, log>>

HistoryRecord(edit) ==
    /\ last = Idle
    /\ Len(hist.edits) < MaxHist
    /\ LET r == record(hist, edit)
       IN  /\ hist' = r.hist
           /\ last' = [op |-> "record", id |-> 0, edit |-> edit,
                       res |-> Ok(r.edit), tr |-> Ok(NoEdit), cur |-> rev(hist)]
    /\ UNCHANGED <<pt, clients, panicked, log>>

HistoryAck(r) ==
    /\ last = Idle
    /\ hist' = HistoryAcknowledge(hist, r)
    /\ last' = [op |-> "acknowledge", id |-> 0,
                edit |-> [pos |-> 0, rev |-> r, action |-> Delete(0)],
                res |-> Ok(NoEdit), tr |-> Ok(NoEdit), cur |-> rev(hist)]
    /\ UNCHANGED <<pt, clients, panicked, log>>

NextHistory ==
    \/ \E edit \in Edit : HistoryTransform(edit)
    \/ \E edit \in Edit : HistoryRecord(edit)
    \/ \E r \in 0..MaxRev : HistoryAck(r)
    \/ Return

SpecHistory == Init /\ [][NextHistory]_vars

(***************************************************************************)
(* A PieceTable on its own, fresh or built from a string, under any        *)
(* sequence of insert and delete calls whose documented preconditions hold *)
(* (valid_index(pos) for insert; len > 0, valid_index(pos) and             *)
(* valid_index(pos + len) for delete).  last is the call made, with the    *)
(* text a plain string holds after the same calls.                         *)
(***************************************************************************)
\* The strings inserted: "a" and "\u00E4" (two bytes).
PtContents == {<<97>>, <<195, 164>>}

\* The strings a table is built from: "" and "a\u00E4".
PtStrings == {<<>>, <<97, 195, 164>>}

\* String::insert_str and String::replace_range(pos..pos+len, "") on a
\* plain string of bytes.
insert_str(s, pos, content) ==
    SubSeq(s, 1, pos) \o content \o SubSeq(s, pos + 1, Len(s))

remove_range(s, pos, len) ==
    SubSeq(s, 1, pos) \o SubSeq(s, pos + len + 1, Len(s))

PtCall(op, pos, content, len, text) ==
    [op |-> op, pos |-> pos, content |-> content, len |-> len, text |-> text]

InitPieceTable ==
    /\ \/ pt = PieceTableNew /\ last = PtCall("new", 0, <<>>, 0, <<>>)
       \/ \E s \in PtStrings :
             pt = PieceTableFrom(s) /\ last = PtCall("from", 0, s, 0, s)
    /\ hist = HistoryNew
    /\ clients = <<>>
    /\ panicked = FALSE
    /\ log = <<>>

PtInsert(pos, content) ==
    /\ ~panicked
    /\ Len(pt.buffer) + Len(content) <= MaxBuffer
    /\ valid_index(pt, pos)
    /\ LET q == insert(pt, pos, content)
       IN  /\ pt' = [buffer |-> q.buffer, pieces |-> q.pieces]
           /\ panicked' = q.panic
    /\ last' = PtCall("insert", pos, content, 0,
                      insert_str(last.text, pos, content))
    /\ UNCHANGED <<hist, clients, log>>

PtDelete(pos, len) ==
    /\ ~panicked
    /\ len > 0
    /\ valid_index(pt, pos)
    /\ valid_index(pt, pos + len)
    /\ LET q == delete(pt, pos, len)
       IN  /\ pt' = [buffer |-> q.buffer, pieces |-> q.pieces]
           /\ panicked' = q.panic
    /\ last' = PtCall("delete", pos, <<>>, len,
                      remove_range(last.text, pos, len))
    /\ UNCHANGED <<hist, clients, log>>

NextPieceTable ==
    \/ \E pos \in 0..MaxBuffer : \E content \in PtContents : PtInsert(pos, content)
    \/ \E pos \in 0..MaxBuffer : \E len \in 0..MaxLen : PtDelete(pos, len)

SpecPieceTable == InitPieceTable /\ [][NextPieceTable]_vars

(***************************************************************************)
(* The websocket server (src/src/bin/server.rs): one Server handler per    *)
(* connection on one Editor, the handlers running one at a time.  The ws   *)
(* library numbers the connections it accepts, so an id names one          *)
(* connection: it opens once and, once closed, stays closed.  What a       *)
(* client sends is not constrained.  last is the handler the server is     *)
(* in, with out, the messages it handed to the transport, in order, and    *)
(* opened, the connections accepted so far.  log holds the broadcast       *)
(* edits.  The transport delivers to each connection in the order of the   *)
(* calls of send and broadcast.                                            *)
(***************************************************************************)
\* What a client can send: a frame that is not text, a text that is not
\* the JSON of an Edit, or an Edit.
Messages ==
    {[kind |-> "binary", edit |-> NoEdit], [kind |-> "text", edit |-> NoEdit]}
        \cup {[kind |-> "edit", edit |-> e] :
                  e \in {x \in Edit : /\ x.pos <= ServerMaxPos
                                      /\ x.action.len <= ServerMaxDel}}

\* Sender::send on the connection id, Sender::broadcast from it to every
\* open connection.
send(id, m) == [to |-> {id}, msg |-> m]

broadcast(id, peers, m) == [to |-> peers, msg |-> m]

StatusMsg(status) == [type |-> "status", rev |-> status[1], text |-> status[2]]
SuccessMsg == [type |-> "ack", success |-> TRUE, reason |-> ""]
FailureMsg(reason) == [type |-> "ack", success |-> FALSE, reason |-> reason]
EditMsg(e) == [type |-> "edit", edit |-> e]

\* A handler that hands back the applied edit at the position the client
\* sent.
handle_edit_echo(p, h, cl, id, msg) ==
    LET r == IF msg.kind = "edit"
             THEN EditorEdit(p, h, cl, id, msg.edit)
             ELSE [pt |-> p, hist |-> h, clients |-> cl, panic |-> FALSE,
                   res |-> Err("invalid message", msg.edit),
                   tr |-> Err("invalid message", msg.edit), cur |-> rev(h)]
    IN  IF r.res.ok
        THEN [r EXCEPT !.res = Ok([r.res.edit EXCEPT !.pos = msg.edit.pos])]
        ELSE r

\* Server::handle_edit: the Editor's state afterwards and the result.
handle_edit(p, h, cl, id, msg) ==
    LET refused(reason) ==
            [pt |-> p, hist |-> h, clients |-> cl, panic |-> FALSE,
             res |-> Err(reason, msg.edit), tr |-> Err(reason, msg.edit),
             cur |-> rev(h)]
    IN  IF msg.kind = "binary" THEN refused("invalid message")
        ELSE IF msg.kind = "text" THEN refused("invalid json")
        ELSE EditorEdit(p, h, cl, id, msg.edit)

\* A handler that broadcasts the edit before it answers the sender.
on_message_out_broadcast_first(id, peers, res) ==
    IF res.ok
    THEN <<broadcast(id, peers, EditMsg(res.edit)), send(id, SuccessMsg)>>
    ELSE <<send(id, FailureMsg(res.err))>>

\* Server::on_message: what it sends, in order, for the result res of
\* handle_edit.
on_message_out(id, peers, res) ==
    IF res.ok
    THEN <<send(id, SuccessMsg), broadcast(id, peers, EditMsg(res.edit))>>
    ELSE <<send(id, FailureMsg(res.err))>>

\* The connections that are open: opened[c] is FALSE once c has closed.
Peers(opened) == {c \in DOMAIN opened : opened[c]}

\* The connection whose view of the session is recorded in seen: what it
\* was sent when it opened, how many edits had been broadcast by then, and
\* whether it has sent nothing since (quiet).  The server treats all
\* connections alike, so any one stands for each.
Observer == CHOOSE id \in Ids : TRUE

Unseen == [some |-> FALSE, rev |-> 0, text |-> <<>>, at |-> 0, quiet |-> TRUE]

ServerIdle(opened, seen) ==
    [op |-> "idle", id |-> 0, ok |-> TRUE, out |-> <<>>, opened |-> opened,
     seen |-> seen]

InitServer ==
    /\ pt = PieceTableNew
    /\ hist = HistoryNew
    /\ clients = <<>>
    /\ panicked = FALSE
    /\ last = ServerIdle(<<>>, Unseen)
    /\ log = <<>>

on_open(id) ==
    /\ ~panicked
    /\ last.op = "idle"
    /\ id \notin DOMAIN last.opened
    /\ LET c == EditorConnect(pt, hist, clients, id)
       IN  /\ clients' = c.clients
           /\ last' = [op |-> "open", id |-> id, ok |-> TRUE,
                       out |-> <<send(id, StatusMsg(c.ret))>>,
                       opened |-> MapInsert(last.opened, id, TRUE),
                       seen |-> IF id = Observer
                                THEN [some |-> TRUE, rev |-> c.ret[1],
                                      text |-> c.ret[2], at |-> Len(log),
                                      quiet |-> TRUE]
                                ELSE last.seen]
    /\ UNCHANGED <<pt, hist, panicked, log>>

on_message(id, msg) ==
    /\ ~panicked
    /\ last.op = "idle"
    /\ id \in Peers(last.opened)
    /\ Len(log) < MaxEdits
    /\ LET r   == handle_edit(pt, hist, clients, id, msg)
           out == on_message_out(id, Peers(last.opened), r.res)
       IN  /\ pt' = r.pt
           /\ hist' = r.hist
           /\ clients' = r.clients
           /\ panicked' = r.panic
           /\ last' = [op |-> "message", id |-> id, ok |-> r.res.ok,
                       out |-> out, opened |-> last.opened,
                       seen |-> IF id = Observer
                                THEN [last.seen EXCEPT !.quiet = FALSE]
                                ELSE last.seen]
           /\ LET casts == SelectSeq(out, LAMBDA m : m.msg.type = "edit")
              IN  log' = log \o [k \in 1..Len(casts)
                                 |-> [edit |-> casts[k].msg.edit,
                                      ids |-> IdText(r.pt)]]

on_close(id) ==
    /\ ~panicked
    /\ last.op = "idle"
    /\ id \in Peers(last.opened)
    /\ LET d == EditorDisconnect(hist, clients, id)
       IN  /\ clients' = d.clients
           /\ hist' = d.hist
           /\ last' = [op |-> "close", id |-> id, ok |-> TRUE, out |-> <<>>,
                       opened |-> MapInsert(last.opened, id, FALSE),
                       seen |-> IF id = Observer THEN Unseen ELSE last.seen]
    /\ UNCHANGED <<pt, panicked, log>>

\* The handler returns to the event loop.
ServerReturn ==
    /\ last.op # "idle"
    /\ last' = ServerIdle(last.opened, last.seen)
    /\ UNCHANGED <<pt, hist, clients, panicked, log>>

NextServer ==
    \/ \E id \in Ids : on_open(id)
    \/ \E id \in Ids : \E msg \in Messages : on_message(id, msg)
    \/ \E id \in Ids : on_close(id)
    \/ ServerReturn

SpecServer == InitServer /\ [][NextServer]_vars

(***************************************************************************)
(* The insert/delete command-line client (src/src/bin/client.rs,           *)
(* ActionClient) on its own.  last is the client: its fields pos, action   *)
(* and init_received, the edits it has sent, the number of times it has    *)
(* called close, and the frame its handler was last called with; log is    *)
(* the frames received so far.  What arrives is not constrained: any of    *)
(* the messages the server sends, in any order, a frame that is not text,  *)
(* or a text that is not JSON.  A JSON value is modelled by its shape: the *)
(* status is an array [rev, text], an acknowledgement an object with the   *)
(* key success, a broadcast edit an object without it.                     *)
(***************************************************************************)
NotJson == [type |-> "none"]

Frames ==
    {[kind |-> "binary", json |-> NotJson], [kind |-> "text", json |-> NotJson]}
        \cup {[kind |-> "json", json |-> StatusMsg(<<r, t>>)] :
                  r \in 0..MaxRev, t \in {<<>>} \cup Contents}
        \cup {[kind |-> "json", json |-> m] :
                  m \in {SuccessMsg, FailureMsg("invalid index")}}
        \cup {[kind |-> "json", json |-> EditMsg(e)] :
                  e \in {x \in Edit : x.pos = 0 /\ x.rev = MaxRev}}

\* Message::as_text succeeds on a text frame; serde_json::from_str on a
\* text that is JSON, and as (u32, String) on an array of that shape only.
as_text_ok(frame) == frame.kind # "binary"

from_str_status_ok(frame) == frame.kind = "json" /\ frame.json.type = "status"

from_str_json_ok(frame) == frame.kind = "json"

\* if let Json::Object(map) = json, and map.contains_key("success").
is_object(json) == json.type \in {"ack", "edit"}

contains_key(json, key) == key \in DOMAIN json

\* What one call of a handler does: the client afterwards, the edits sent,
\* whether close was called, whether the handler returned an error or
\* panicked.
Outcome(init_received, sent, close, err, panic) ==
    [init_received |-> init_received, sent |-> sent, close |-> close,
     err |-> err, panic |-> panic]

\* A client that closes on any JSON object it receives after the first
\* message.
on_message_any_object(c, frame) ==
    IF ~c.init_received
    THEN IF ~as_text_ok(frame) THEN Outcome(FALSE, <<>>, FALSE, TRUE, FALSE)
         ELSE IF ~from_str_status_ok(frame)
         THEN Outcome(FALSE, <<>>, FALSE, FALSE, TRUE)
         ELSE Outcome(TRUE, <<[pos |-> c.pos, rev |-> frame.json.rev,
                               action |-> c.action]>>, FALSE, FALSE, FALSE)
    ELSE IF ~as_text_ok(frame) THEN Outcome(TRUE, <<>>, FALSE, TRUE, FALSE)
         ELSE IF ~from_str_json_ok(frame)
         THEN Outcome(TRUE, <<>>, FALSE, FALSE, TRUE)
         ELSE Outcome(TRUE, <<>>, is_object(frame.json), FALSE, FALSE)

\* ActionClient::on_message
ActionClient_on_message(c, frame) ==
    IF ~c.init_received
    THEN IF ~as_text_ok(frame) THEN Outcome(FALSE, <<>>, FALSE, TRUE, FALSE)
         ELSE IF ~from_str_status_ok(frame)
         THEN Outcome(FALSE, <<>>, FALSE, FALSE, TRUE)
         ELSE Outcome(TRUE, <<[pos |-> c.pos, rev |-> frame.json.rev,
                               action |-> c.action]>>, FALSE, FALSE, FALSE)
    ELSE IF ~as_text_ok(frame) THEN Outcome(TRUE, <<>>, FALSE, TRUE, FALSE)
         ELSE IF ~from_str_json_ok(frame)
         THEN Outcome(TRUE, <<>>, FALSE, FALSE, TRUE)
         ELSE Outcome(TRUE, <<>>,
                      is_object(frame.json) /\ contains_key(frame.json, "success"),
                      FALSE, FALSE)

\* ws::connect(url, |out| ActionClient { pos, action, init_received: false })
ActionClient(pos, action) ==
    [pos |-> pos, action |-> action, init_received |-> FALSE, sent |-> <<>>,
     closes |-> 0, frame |-> [kind |-> "none", json |-> NotJson], err |-> FALSE]

InitClient ==
    /\ \E pos \in 0..MaxPos : \E action \in EditAction :
          last = ActionClient(pos, action)
    /\ pt = PieceTableNew
    /\ hist = HistoryNew
    /\ clients = <<>>
    /\ panicked = FALSE
    /\ log = <<>>

\* The library calls the handler with a frame that has arrived.
ClientReceive(frame) ==
    /\ ~panicked
    /\ Len(log) < MaxInbox
    /\ LET o == ActionClient_on_message(last, frame)
       IN  /\ last' = [last EXCEPT !.init_received = o.init_received,
                                   !.sent = last.sent \o o.sent,
                                   !.closes = last.closes
                                              + (IF o.close THEN 1 ELSE 0),
                                   !.frame = frame,
                                   !.err = o.err]
           /\ panicked' = o.panic
    /\ log' = Append(log, frame)
    /\ UNCHANGED <<pt, hist, clients>>

NextClient == \E frame \in Frames : ClientReceive(frame)

SpecClient == InitClient /\ [][NextClient]_vars

(***************************************************************************)
(* The claims.                                                             *)
(***************************************************************************)
NeverPanics == ~panicked

\* C9.  If edit.rev equals the current revision (first_rev + number of
\* entries), History.transform succeeds and returns an edit with the same
\* pos, rev and action as its input, whatever the history holds.
C9_TransformAtCurrentRev ==
    (last.op = "transform" /\ last.edit.rev = rev(hist))
        => (last.res.ok /\ last.res.edit = last.edit)

\* C9 happens: transform was called at the current revision on a history
\* that holds entries the edit's position would be checked against.
C9_Witness ==
    /\ last.op = "transform"
    /\ last.edit.rev = rev(hist)
    /\ Len(hist.edits) >= 2
    /\ \E k \in 1..Len(hist.edits) :
          Min2(hist.edits[k][1], hist.edits[k][2]) <= last.edit.pos
          /\ last.edit.pos <= hist.edits[k][1]
    /\ last.res.ok

\* The set of the values of a sequence.
Range(s) == {s[i] : i \in DOMAIN s}

\* The revisions of the log are 1, 2, 3, ... and the current revision is
\* their number: what holds while every client follows the protocol.
RevisionsInOrder ==
    /\ rev(hist) = Len(log)
    /\ \A k \in 1..Len(log) : log[k].edit.rev = k
    /\ \A c \in DOMAIN clients :
          hist.first_rev <= clients[c] /\ clients[c] <= rev(hist)

\* C1.  Every successful Editor.edit returns an edit whose rev is the
\* current revision immediately before the call plus one, and that rev is
\* strictly greater than every revision assigned to an earlier successful
\* edit (submitted edits carry arbitrary rev values).
C1_RevisionMonotone ==
    [][(last'.op = "edit" /\ last'.res.ok)
          => (/\ last'.res.edit.rev = rev(hist) + 1
              /\ \A k \in 1..Len(log) : log[k].edit.rev < last'.res.edit.rev)]_vars

\* C2.  Whenever Editor.edit returns an error, the whole Editor state is as
\* it was before the call: the piece table, the history (first_rev and
\* entries) and the client-acknowledgement map are unchanged.
C2_ErrorLeavesStateUnchanged ==
    [][(last'.op = "edit" /\ ~last'.res.ok)
          => (pt' = pt /\ hist' = hist /\ clients' = clients)]_vars

\* C3.  In every reachable state, first_rev <= ack(c) <= current_rev for
\* every connected client c, where current_rev = first_rev + number of
\* history entries.
C3_AckWithinHistory ==
    \A c \in DOMAIN clients :
        hist.first_rev <= clients[c] /\ clients[c] <= rev(hist)

\* C4.  When the history has been trimmed so that first_rev is greater than
\* r, an edit submitted through Editor.edit with rev = r is refused with
\* "old revision".  The trimmed history is one whose revisions are in order
\* and whose acknowledgements lie within it.
C4_StaleRevisionRefused ==
    [][(last'.op = "edit" /\ RevisionsInOrder /\ last'.edit.rev < hist.first_rev)
          => (~last'.res.ok /\ last'.res.err = "old revision")]_vars

\* C5.  An edit submitted through Editor.edit whose rev is greater than the
\* current revision is refused with "future revision", whatever the set of
\* connected clients is.
C5_FutureRevisionRefused ==
    [][(last'.op = "edit" /\ last'.edit.rev > rev(hist))
          => (~last'.res.ok /\ last'.res.err = "future revision")]_vars

\* C10.  After every Editor.edit call, successful or not, first_rev is at
\* most the minimum acknowledgement over the connected clients, and the
\* k-th retained history entry is the effect of the edit that was assigned
\* revision first_rev + k (no entry of a revision at or below first_rev is
\* retained).
C10_HistoryTrimmed ==
    last.op = "edit" =>
        /\ \A c \in DOMAIN clients : hist.first_rev <= clients[c]
        /\ Len(hist.edits) <= Len(log)
        /\ \A k \in 1..Len(hist.edits) :
              LET e == log[Len(log) - Len(hist.edits) + k].edit
              IN  /\ e.rev = hist.first_rev + k
                  /\ hist.edits[k] = record(HistoryNew, e).hist.edits[1]

\* The position of an edit submitted at pos when transform reaches entry k,
\* having started at entry from: every entry before k that lies before the
\* position has shifted it.
RECURSIVE RunningPos(_, _, _, _)
RunningPos(edits, from, k, pos) ==
    IF from >= k THEN pos
    ELSE RunningPos(edits, from + 1, k,
                    IF edits[from][1] < pos
                    THEN (pos + edits[from][2]) - edits[from][1]
                    ELSE pos)

\* The history transform is given by Editor.edit(id, edit) in this state.
HistoryGiven(id, edit) == EditorAcknowledge(clients, hist, id, edit.rev).hist

\* A Delete whose range [pos, pos+len) holds, strictly inside, the position
\* P of an edit recorded after the delete's base revision.
Straddles(h, edit) ==
    /\ edit.action.kind = "Delete"
    /\ h.first_rev <= edit.rev
    /\ \E k \in (edit.rev - h.first_rev + 1)..Len(h.edits) :
          LET p == RunningPos(h.edits, edit.rev - h.first_rev + 1, k, edit.pos)
              P == Min2(h.edits[k][1], h.edits[k][2])
          IN  p < P /\ P < p + edit.action.len

\* C6.  transform rejects with "not implemented" every Delete(len) at pos
\* whose range [pos, pos+len) straddles the region of an edit recorded after
\* the delete's base revision (a recorded insert or delete at P with
\* pos < P < pos+len); such a delete is never applied.
C6_StraddlingDeleteRefused ==
    [][(last'.op = "edit" /\ Straddles(HistoryGiven(last'.id, last'.edit), last'.edit))
          => (/\ ~last'.tr.ok
              /\ last'.tr.err = "not implemented"
              /\ ~last'.res.ok
              /\ pt' = pt)]_vars

Index(s, x) == CHOOSE i \in DOMAIN s : s[i] = x

\* Revision r is one the log accounts for: 0, the empty text, or the
\* revision assigned to the r-th applied edit.
KnownRev(r) == r = 0 \/ (r \in 1..Len(log) /\ log[r].edit.rev = r)

\* The text at revision r, as byte identities.
TextAtRev(r) == IF r = 0 THEN <<>> ELSE log[r].ids

\* C7.  Whenever Editor.edit accepts an edit whose base revision r is a
\* revision the client observed, the change applied to the current buffer
\* is the one the client intended against the text at revision r: an Insert
\* lands between the same surviving neighbouring bytes, and a Delete removes
\* exactly the bytes that occupied [pos, pos+len) in the revision-r text and
\* no byte inserted by a later edit.
C7_IntendedEffect ==
    [][(/\ last'.op = "edit"
        /\ last'.res.ok
        /\ KnownRev(last'.edit.rev)
        /\ last'.edit.pos + last'.edit.action.len
              <= Len(TextAtRev(last'.edit.rev)))
          => LET e      == last'.edit
                 base   == TextAtRev(e.rev)
                 before == IdText(pt)
                 after  == IdText(pt')
                 added  == Range(after) \ Range(before)
                 gone   == Range(before) \ Range(after)
             IN  IF e.action.kind = "Insert"
                 THEN /\ gone = {}
                      /\ \A i \in 1..Len(base) :
                            base[i] \in Range(after) =>
                                \A n \in added :
                                    IF i <= e.pos
                                    THEN Index(after, base[i]) < Index(after, n)
                                    ELSE Index(after, base[i]) > Index(after, n)
                 ELSE /\ added = {}
                      /\ gone = {base[i] : i \in (e.pos + 1)..(e.pos + e.action.len)}]_vars

\* The base revision of the edit is one the history still covers.
BaseRetained(edit) == hist.first_rev <= edit.rev /\ edit.rev <= rev(hist)

\* Entry k of h is an insert recorded after the edit's base revision, and
\* the edit's position, rebased over the entries between, is in within.
\* within is given the insert's position P, its end P+L, and the position.
MeetsInsert(h, edit, k, within(_, _, _)) ==
    /\ k \in (edit.rev - h.first_rev + 1)..Len(h.edits)
    /\ h.edits[k][1] < h.edits[k][2]
    /\ within(h.edits[k][1], h.edits[k][2],
              RunningPos(h.edits, edit.rev - h.first_rev + 1, k, edit.pos))

InsideInsert(P, PL, p) == P <= p /\ p < PL
AtInsert(P, PL, p) == p = P

\* The call returned "not implemented" and left the rendered text and the
\* current revision as they were.
RefusedUnchanged ==
    /\ ~last'.res.ok
    /\ last'.res.err = "not implemented"
    /\ to_string(pt') = to_string(pt)
    /\ rev(hist') = rev(hist)

\* C8.  With the history containing an insert of length L at position P
\* recorded after an edit's base revision, submitting that edit when its
\* rebased position falls inside the insert's range [P, P+L) returns
\* "not implemented", and the rendered text and current revision are the
\* same after the call as before it.
C8_InsideInsertRefused ==
    [][(/\ last'.op = "edit"
        /\ BaseRetained(last'.edit)
        /\ \E k \in 1..Len(hist.edits) :
              MeetsInsert(HistoryGiven(last'.id, last'.edit), last'.edit, k,
                          InsideInsert))
          => RefusedUnchanged]_vars

\* C8, amended.  With the history containing an insert at position P
\* recorded after an edit's base revision, submitting that edit when its
\* rebased position is exactly P returns "not implemented", and the
\* rendered text and current revision are the same after the call as
\* before it.  (A position past P is shifted by the insert's length.)
C8_AtInsertRefused ==
    [][(/\ last'.op = "edit"
        /\ BaseRetained(last'.edit)
        /\ \E k \in 1..Len(hist.edits) :
              MeetsInsert(HistoryGiven(last'.id, last'.edit), last'.edit, k,
                          AtInsert))
          => RefusedUnchanged]_vars

\* An edit was refused at the position of an insert recorded after its
\* base revision, in a history whose revisions are in order.
C8_Witness ==
    /\ last.op = "edit"
    /\ ~last.res.ok
    /\ last.res.err = "not implemented"
    /\ RevisionsInOrder
    /\ Len(log) >= 1
    /\ \E k \in 1..Len(hist.edits) : MeetsInsert(hist, last.edit, k, AtInsert)

\* The history entry History::record pushes for an applied edit.
EntryOf(e) == record(HistoryNew, e).hist.edits[1]

\* The applied edits, in order, whose assigned revision exceeds m.
AppliedAfter(m) == SelectSeq(log, LAMBDA l : l.edit.rev > m)

\* C11.  In every reachable state with at least one connected client, the
\* history entries contain, in order, the positional effect of every
\* applied edit whose assigned revision exceeds the minimum client
\* acknowledgement, so an edit based on any connected client's acknowledged
\* revision is rebased against every edit applied after that revision.
C11_HistoryHoldsUnacknowledged ==
    DOMAIN clients # {} =>
        LET applied == AppliedAfter(MinOf(Values(clients)))
        IN  /\ Len(hist.edits) >= Len(applied)
            /\ \A k \in 1..Len(applied) :
                  hist.edits[Len(hist.edits) - Len(applied) + k]
                      = EntryOf(applied[k].edit)

\* C12.  History.acknowledge(rev) is a no-op when rev <= first_rev:
\* first_rev, the entries and therefore the current revision are all
\* unchanged.
C12_AcknowledgeOldIsNoOp ==
    [][(last'.op = "acknowledge" /\ last'.edit.rev <= hist.first_rev)
          => (/\ hist'.first_rev = hist.first_rev
              /\ hist'.edits = hist.edits
              /\ rev(hist') = rev(hist))]_vars

\* What Editor::edit requires of the transformed edit e before it touches
\* the piece table p.
IndexIsValid(p, e) ==
    IF e.action.kind = "Insert"
    THEN valid_index(p, e.pos)
    ELSE /\ e.action.len > 0
         /\ valid_index(p, e.pos)
         /\ valid_index(p, e.pos + e.action.len)

\* C13.  Editor.edit applies an Insert only if valid_index(pos) holds for
\* the transformed pos, and a Delete(L) only if L > 0 and valid_index(pos)
\* and valid_index(pos+L) hold; otherwise it returns "invalid index".
\* Consequently PieceTable.insert and PieceTable.delete are only ever called
\* by the Editor with their preconditions satisfied, and no lookup unwrap in
\* them fails.
C13_ValidatedBeforeApplied ==
    [][(last'.op = "edit" /\ last'.tr.ok)
          => (/\ last'.res.ok <=> IndexIsValid(pt, last'.tr.edit)
              /\ ~last'.res.ok => (last'.res.err = "invalid index" /\ pt' = pt)
              /\ last'.res.ok =>
                    LET e == last'.tr.edit
                        q == IF e.action.kind = "Insert"
                             THEN insert(pt, e.pos, e.action.s)
                             ELSE delete(pt, e.pos, e.action.len)
                    IN  /\ ~q.panic
                        /\ pt' = [buffer |-> q.buffer, pieces |-> q.pieces]
              /\ ~panicked')]_vars

\* A Delete of two bytes was validated and applied to a table of several
\* pieces, built by two Inserts, and left several pieces.
C13_Witness ==
    /\ last.op = "edit"
    /\ last.res.ok
    /\ last.tr.edit.action.kind = "Delete"
    /\ last.tr.edit.action.len = 2
    /\ Len(pt.buffer) >= 4
    /\ Len(pt.pieces) >= 2
    /\ ~panicked

\* The text of the table p read byte by byte through the identities of
\* its bytes.
TextByIds(p) == [i \in 1..Len(IdText(p)) |-> p.buffer[IdText(p)[i] + 1]]

\* C14.  connect(id) returns the pair (current revision, full rendered
\* text) and sets ack(id) to that current revision; a connect for an id
\* already in the map overwrites its entry without error; connect changes
\* neither the history (first_rev, entries) nor the piece table.
C14_Connect ==
    [][last'.op = "connect"
          => LET id  == last'.id
                 ret == EditorConnect(pt, hist, clients, id).ret
             IN  /\ last'.cur = rev(hist)
                 /\ ret = <<rev(hist), TextByIds(pt)>>
                 /\ DOMAIN clients' = DOMAIN clients \cup {id}
                 /\ clients'[id] = rev(hist)
                 /\ \A c \in DOMAIN clients \ {id} : clients'[c] = clients[c]
                 /\ hist' = hist
                 /\ pt' = pt
                 /\ ~panicked']_vars

\* A client connected to a document that has text and a history another
\* client has not acknowledged, at a revision above 0.
C14_Witness ==
    /\ last.op = "connect"
    /\ last.cur >= 1
    /\ clients[last.id] = last.cur
    /\ \E c \in DOMAIN clients : clients[c] < last.cur
    /\ hist.edits # <<>>
    /\ Len(to_string(pt)) >= 2

\* The entries of h for the revisions above r, r being at least first_rev.
EntriesAbove(h, r) ==
    IF r - h.first_rev >= Len(h.edits) THEN <<>>
    ELSE SubSeq(h.edits, r - h.first_rev + 1, Len(h.edits))

\* C15.  disconnect(id) removes id's entry from the acknowledgement map; if
\* clients remain, the history is acknowledged up to the minimum remaining
\* acknowledgement, and if none remain it is acknowledged up to the current
\* revision, leaving the entries empty and first_rev equal to the current
\* revision.
C15_Disconnect ==
    [][last'.op = "disconnect"
          => LET id == last'.id
             IN  /\ DOMAIN clients' = DOMAIN clients \ {id}
                 /\ \A c \in DOMAIN clients' : clients'[c] = clients[c]
                 /\ IF DOMAIN clients' # {}
                    THEN LET m == MinOf({clients[c] : c \in DOMAIN clients \ {id}})
                         IN  /\ hist.first_rev <= m
                             /\ hist'.first_rev = m
                             /\ hist'.edits = EntriesAbove(hist, m)
                    ELSE /\ hist'.first_rev = rev(hist)
                         /\ hist'.edits = <<>>
                         /\ rev(hist') = rev(hist)
                 /\ pt' = pt
                 /\ ~panicked']_vars

\* The last client disconnected after every applied edit: the history is
\* empty at the current revision.
C15_Witness ==
    /\ last.op = "disconnect"
    /\ last.id \notin DOMAIN clients
    /\ DOMAIN clients = {}
    /\ hist.edits = <<>>
    /\ hist.first_rev >= 2
    /\ hist.first_rev = Len(log)

\* C16.  connect, disconnect and buffer never change the rendered text; in
\* particular connecting a client and immediately disconnecting it leaves
\* the Editor's rendered text unchanged.  (buffer reads the piece table and
\* assigns nothing: it is the operator EditorBuffer.)
C16_TextUntouched ==
    [][last'.op \in {"connect", "disconnect"}
          => (/\ EditorBuffer(pt') = EditorBuffer(pt)
              /\ EditorBuffer(pt') = TextByIds(pt)
              /\ EditorConnect(pt', hist', clients', last'.id).ret[2]
                    = EditorBuffer(pt))]_vars

\* A client disconnected from a document whose text is spread over several
\* pieces.
C16_Witness ==
    /\ last.op = "disconnect"
    /\ last.id \notin DOMAIN clients
    /\ Len(EditorBuffer(pt)) >= 2
    /\ Len(pt.pieces) >= 2

\* C17.  For any sequence of insert and delete calls that satisfy their
\* preconditions, applied to a fresh PieceTable or one built from a string,
\* the rendered text equals the result of applying the same inserts and
\* deletes to an independently maintained plain byte string.
C17_RenderConsistency == ~panicked /\ to_string(pt) = last.text

\* A delete of several bytes was applied to a table that inserts had split
\* into pieces, and left text in several pieces.
C17_Witness ==
    /\ last.op = "delete"
    /\ last.len >= 2
    /\ Len(pt.buffer) >= 5
    /\ Cardinality({i \in 1..Len(pt.pieces) : pt.pieces[i][2] > 0}) >= 2
    /\ Len(last.text) >= 2

\* C18.  After any sequence of insert and delete calls (preconditions
\* satisfied) on a fresh PieceTable, the piece list contains at least one
\* entry, so valid_index(0) is true in every reachable state, including
\* after the whole text has been deleted.
C18_PiecesNeverEmpty == Len(pt.pieces) >= 1 /\ valid_index(pt, 0)

\* The whole text of a table that held text was deleted.
C18_Witness ==
    /\ last.op = "delete"
    /\ last.len >= 2
    /\ to_string(pt) = <<>>
    /\ Len(pt.buffer) >= 3

\* Index i of the byte string s is the start of a code point or the end of
\* s: a byte 10xxxxxx continues a code point.
CharBoundary(s, i) ==
    /\ i \in 0..Len(s)
    /\ i = Len(s) \/ s[i + 1] \notin 128..191

\* C19.  In every reachable PieceTable state, valid_index(pos) is true if
\* and only if 0 <= pos <= length of the rendered text and pos is a UTF-8
\* character boundary of the rendered text; it is false for every pos
\* beyond the end and for every pos inside a multi-byte character.
C19_ValidIndexIsBoundary ==
    \A pos \in 0..(MaxBuffer + 1) :
        valid_index(pt, pos) <=> CharBoundary(to_string(pt), pos)

\* The text is in several pieces and holds a two-byte character that does
\* not start the text: the position inside it is not valid, the positions
\* around it are.
C19_Witness ==
    /\ last.op \in {"insert", "delete"}
    /\ Cardinality({i \in 1..Len(pt.pieces) : pt.pieces[i][2] > 0}) >= 2
    /\ \E pos \in 2..MaxBuffer :
          /\ pos < Len(to_string(pt))
          /\ ~valid_index(pt, pos)
          /\ valid_index(pt, pos - 1)
          /\ valid_index(pt, pos + 1)

\* C20.  In every PieceTable state reachable through insert and delete
\* calls that satisfy their preconditions, every piece's range
\* [offset, offset+length) lies within the buffer, and both offset and
\* offset+length are UTF-8 character boundaries of the buffer.
C20_PiecesWithinBuffer ==
    \A i \in 1..Len(pt.pieces) :
        LET offset == pt.pieces[i][1]
            length == pt.pieces[i][2]
        IN  /\ offset >= 0
            /\ length >= 0
            /\ offset + length <= Len(pt.buffer)
            /\ CharBoundary(pt.buffer, offset)
            /\ CharBoundary(pt.buffer, offset + length)

\* Three pieces that hold text, in a buffer with two-byte characters, one
\* of them lying strictly inside the first three bytes of the buffer.
C20_Witness ==
    /\ Cardinality({i \in 1..Len(pt.pieces) : pt.pieces[i][2] > 0}) >= 3
    /\ \E i \in 1..Len(pt.pieces) :
          pt.pieces[i][1] > 0 /\ pt.pieces[i][1] + pt.pieces[i][2] < 3
                              /\ pt.pieces[i][2] > 0
    /\ \E k \in 1..Len(pt.buffer) : pt.buffer[k] >= 128

\* The table p after insert(pos, s) followed by delete(pos, byte length of
\* s), with the panic flag of the two calls.
InsertThenDelete(p, pos, s) ==
    LET a == insert(p, pos, s)
        b == delete([buffer |-> a.buffer, pieces |-> a.pieces], pos, Len(s))
    IN  [buffer |-> b.buffer, pieces |-> b.pieces, panic |-> a.panic \/ b.panic]

\* C21.  For every reachable PieceTable state, every valid pos and every
\* string s, insert(pos, s) followed by delete(pos, byte_length(s)) yields
\* a table whose rendered text equals the rendering before the insert and
\* whose valid_index answers are the same for every position.
C21_InsertDeleteInverse ==
    \A pos \in 0..MaxBuffer : \A s \in PtContents :
        valid_index(pt, pos) =>
            LET q == InsertThenDelete(pt, pos, s)
            IN  /\ ~q.panic
                /\ to_string(q) = to_string(pt)
                /\ \A i \in 0..(MaxBuffer + 1) :
                      valid_index(q, i) <=> valid_index(pt, i)

\* A table reached by inserts and deletes, with its text in several pieces,
\* in which an insert in the middle of a piece followed by the delete gives
\* the same text from another piece list.
C21_Witness ==
    /\ last.op \in {"insert", "delete"}
    /\ Cardinality({i \in 1..Len(pt.pieces) : pt.pieces[i][2] > 0}) >= 2
    /\ \E pos \in 1..MaxBuffer : \E s \in PtContents :
          /\ valid_index(pt, pos)
          /\ piece_index(pt.pieces, pos).len > pos
          /\ Len(s) = 2
          /\ InsertThenDelete(pt, pos, s).pieces # pt.pieces
          /\ to_string(InsertThenDelete(pt, pos, s)) = to_string(pt)

\* C22.  Across any sequence of PieceTable operations the internal buffer
\* only grows: its length never decreases, insert appends exactly the
\* inserted bytes at the end, delete leaves the buffer untouched, and no
\* previously written byte ever changes.
C22_BufferAppendOnly ==
    [][/\ Len(pt'.buffer) >= Len(pt.buffer)
       /\ SubSeq(pt'.buffer, 1, Len(pt.buffer)) = pt.buffer
       /\ last'.op = "insert" => pt'.buffer = pt.buffer \o last'.content
       /\ last'.op = "delete" => pt'.buffer = pt.buffer]_vars

\* A delete was applied after inserts: the buffer holds more bytes than the
\* text, and bytes of it that no piece refers to.
C22_Witness ==
    /\ last.op = "delete"
    /\ Len(pt.buffer) >= 4
    /\ Len(to_string(pt)) < Len(pt.buffer)
    /\ Len(to_string(pt)) >= 1

\* The three cases on a running position p, entry by entry from index k:
\* the result is the final position, whether an entry that neither lies
\* before nor after p was met, and whether p ever fell below zero.
RECURSIVE RebaseByCases(_, _, _)
RebaseByCases(edits, k, p) ==
    IF k > Len(edits) THEN [ok |-> TRUE, pos |-> p, underflow |-> p < 0]
    ELSE LET old == edits[k][1]
             new == edits[k][2]
         IN  IF Min2(old, new) <= p /\ p <= old
             THEN [ok |-> FALSE, pos |-> p, underflow |-> p < 0]
             ELSE LET r == RebaseByCases(edits, k + 1,
                                         IF old < p THEN p + new - old ELSE p)
                  IN  [ok |-> r.ok, pos |-> r.pos,
                       underflow |-> r.underflow \/ p < 0]

RecursiveCall(pieces, pos, len) ==
    LET r == piece_index_del(pieces, pos)
    IN  IF ~r.some THEN [some |-> FALSE, pieces |-> pieces, len |-> 0]
        ELSE
        LET p              == pieces[r.piece]
            overlap        == pos + len > r.len
            end_of_piece   == pos + len = r.len
            start_of_piece == pos = r.len - p[2]
            overhead       == r.len - pos
        IN  IF start_of_piece /\ ~end_of_piece /\ overlap
            THEN [some |-> TRUE, pieces |-> VecRemove(pieces, r.piece),
                  len |-> len - p[2]]
            ELSE IF ~start_of_piece /\ ~end_of_piece /\ overlap
            THEN [some |-> TRUE,
                  pieces |-> [pieces EXCEPT ![r.piece] = <<p[1], p[2] - overhead>>],
                  len |-> len - overhead]
            ELSE [some |-> FALSE, pieces |-> pieces, len |-> 0]

\* The call delete(pos, len) on the pieces, and every call it leads to,
\* has a positive length, satisfies the precondition and finds its piece,
\* and each call passes on a strictly smaller length.
RECURSIVE DeleteDescends(_, _, _, _)
DeleteDescends(buffer, pieces, pos, len) ==
    /\ len > 0
    /\ valid_index([buffer |-> buffer, pieces |-> pieces], pos)
    /\ valid_index([buffer |-> buffer, pieces |-> pieces], pos + len)
    /\ piece_index_del(pieces, pos).some
    /\ LET n == RecursiveCall(pieces, pos, len)
       IN  n.some => (n.len < len /\ DeleteDescends(buffer, n.pieces, pos, n.len))

\* The number of calls of delete that delete(pos, len) comes to.
RECURSIVE DeleteDepth(_, _, _)
DeleteDepth(pieces, pos, len) ==
    LET n == RecursiveCall(pieces, pos, len)
    IN  IF n.some /\ n.len < len
        THEN 1 + DeleteDepth(n.pieces, pos, n.len)
        ELSE 1

\* C26.  PieceTable.delete(pos, len) called with len > 0, valid_index(pos)
\* and valid_index(pos+len) always terminates: each recursive call has a
\* strictly smaller positive length and still satisfies the precondition,
\* the piece lookup never returns out-of-range, and no piece length is ever
\* decremented below zero.
C26_DeleteTerminates ==
    \A pos \in 0..MaxBuffer : \A len \in 1..MaxBuffer :
        (valid_index(pt, pos) /\ valid_index(pt, pos + len))
            => (/\ DeleteDescends(pt.buffer, pt.pieces, pos, len)
                /\ ~delete(pt, pos, len).panic)

\* A table reached by inserts in which a delete runs through three pieces,
\* calling itself twice.
C26_Witness ==
    /\ last.op \in {"insert", "delete"}
    /\ \E pos \in 0..MaxBuffer : \E len \in 1..MaxBuffer :
          /\ valid_index(pt, pos)
          /\ valid_index(pt, pos + len)
          /\ DeleteDepth(pt.pieces, pos, len) >= 3
          /\ pos > 0
          /\ pos + len < Len(to_string(pt))

\* C27.  The current revision (first_rev + number of entries) is changed
\* only by a successful edit: no connect, no disconnect and no failed edit
\* ever changes it, and it never decreases over any sequence of Editor
\* operations.
C27_RevisionChangesOnlyOnSuccess ==
    [][/\ ~(last'.op = "edit" /\ last'.res.ok) => rev(hist') = rev(hist)
       /\ rev(hist') >= rev(hist)]_vars

\* C28.  History.acknowledge(rev) called with first_rev <= rev <= current
\* revision removes exactly the rev - first_rev oldest entries, sets
\* first_rev to rev and leaves the current revision and the remaining
\* entries (and their order) unchanged.
C28_AcknowledgeTrims ==
    [][(/\ last'.op = "acknowledge"
        /\ hist.first_rev <= last'.edit.rev
        /\ last'.edit.rev <= rev(hist))
          => LET n == last'.edit.rev - hist.first_rev
             IN  /\ hist'.first_rev = last'.edit.rev
                 /\ Len(hist'.edits) = Len(hist.edits) - n
                 /\ \A k \in 1..Len(hist'.edits) :
                       hist'.edits[k] = hist.edits[n + k]
                 /\ rev(hist') = rev(hist)]_vars

\* acknowledge was called at a revision above 0 and below the current one,
\* which it left as it was: an entry is retained.
C28_Witness ==
    /\ last.op = "acknowledge"
    /\ last.edit.rev = hist.first_rev
    /\ hist.first_rev >= 1
    /\ Len(hist.edits) >= 1
    /\ last.cur = rev(hist)
    /\ hist.edits[1][1] # hist.edits[1][2]

\* C29.  Whenever Editor.edit returns an error, the rendered text is the
\* same after the call as before it: the piece table is mutated only after
\* transform and position validation have both succeeded.
C29_ErrorLeavesTextUnchanged ==
    [][(last'.op = "edit" /\ ~last'.res.ok)
          => (to_string(pt') = to_string(pt) /\ pt' = pt)]_vars

\* transform refused an Insert whose position is valid in the text.
C29_Witness ==
    /\ last.op = "edit"
    /\ ~last.res.ok
    /\ last.res.err = "not implemented"
    /\ last.edit.action.kind = "Insert"
    /\ valid_index(pt, last.edit.pos)
    /\ Len(to_string(pt)) >= 2

C24_BroadcastsContiguous ==
    (last.seen.some /\ last.seen.quiet)
        => \A k \in 1..(Len(log) - last.seen.at) :
              log[last.seen.at + k].edit.rev = last.seen.rev + k

\* The edit e as a replica applies it to its text, and whether its
\* positions are valid there.
ReplicaApply(text, e) ==
    IF e.action.kind = "Insert"
    THEN insert_str(text, e.pos, e.action.s)
    ELSE remove_range(text, e.pos, e.action.len)

ReplicaCanApply(text, e) ==
    /\ CharBoundary(text, e.pos)
    /\ e.action.kind = "Delete" => CharBoundary(text, e.pos + e.action.len)

\* The replica's text after the broadcasts from+1 .. to of the log.
RECURSIVE Replica(_, _, _)
Replica(text, from, to) ==
    IF to <= from THEN text
    ELSE ReplicaApply(Replica(text, from, to - 1), log[to].edit)

C31_ActionClientProtocol ==
    [][LET frame  == last'.frame
           status == frame.kind = "json" /\ frame.json.type = "status"
           ack    == frame.kind = "json" /\ frame.json.type = "ack"
       IN  /\ last'.init_received <=> Len(last'.sent) = 1
           /\ Len(last'.sent) <= 1
           /\ ~last.init_received =>
                 /\ last'.closes = last.closes
                 /\ IF status
                    THEN last'.sent = <<[pos |-> last.pos,
                                         rev |-> frame.json.rev,
                                         action |-> last.action]>>
                    ELSE last'.sent = <<>>
           /\ last.init_received =>
                 /\ last'.sent = last.sent
                 /\ last'.closes = last.closes + (IF ack THEN 1 ELSE 0)]_vars

\* The client received [2, "ab"], then another client's edit, then its
\* acknowledgement: it has sent one edit, based on revision 2, and closed
\* once.
C31_Witness ==
    /\ Len(log) = 3
    /\ log[1].json = StatusMsg(<<MaxRev, <<97, 98>>>>)
    /\ log[2].json.type = "edit"
    /\ log[3].json = SuccessMsg
    /\ Len(last.sent) = 1
    /\ last.sent[1].rev = MaxRev
    /\ last.closes = 1
    /\ ~panicked

====
